---- MODULE Spec2Model ----
(***************************************************************************)
(* A model of blockchain_parser/input.py: the Input record decoder, its    *)
(* lazily computed accessors (transaction_hash, sequence_number, script,   *)
(* type, addresses), the witness list, and the unsynchronised memoisation  *)
(* of the accessors when one record is read by two threads.                *)
(*                                                                         *)
(* Byte strings are sequences of naturals in 0..255.  The collaborators    *)
(* the module imports (utils, script, address) are not part of the source  *)
(* at hand: decode_varint, decode_uint32, format_hash, the Script          *)
(* tokenizer and the Address constructors follow their stated contracts.   *)
(***************************************************************************)
EXTENDS Integers, Sequences, FiniteSets, TLC

VARIABLES raw, tok, rec, obs, calls, nops, thr

vars == <<raw, tok, rec, obs, calls, nops, thr>>

-----------------------------------------------------------------------------
(* Bounds of the model.                                                    *)

\* the longest script the input buffers declare
MaxScriptLen == 1

\* the number of accessor / add_witness calls one run makes
MaxOps == 3

\* the two records of a run, and the two reader threads of the shared run
Recs == {1, 2}

Threads == {1, 2}

-----------------------------------------------------------------------------
(* Python helpers.                                                         *)

Min(a, b) == IF a < b THEN a ELSE b

\* s[a:b] for 0 <= a, 0 <= b: the slice is clipped to the sequence, never an error
PySlice(s, a, b) == SubSeq(s, a + 1, Min(b, Len(s)))

\* s[a:]
PySliceFrom(s, a) == SubSeq(s, a + 1, Len(s))

RECURSIVE LittleEndian(_)
LittleEndian(s) == IF s = <<>> THEN 0 ELSE Head(s) + 256 * LittleEndian(Tail(s))

RECURSIVE Reverse(_)
Reverse(s) == IF s = <<>> THEN <<>> ELSE Append(Reverse(Tail(s)), Head(s))

-----------------------------------------------------------------------------
(* utils: decode_varint, decode_uint32, format_hash.                       *)

\* the compact-size prefix: [ok, value, consumed]; not ok when fewer bytes
\* remain than the prefix byte demands
decode_varint(data) ==
    IF Len(data) = 0 THEN [ok |-> FALSE, value |-> 0, consumed |-> 0]
    ELSE LET first == data[1]
             width == IF first < 253 THEN 0
                      ELSE IF first = 253 THEN 2
                      ELSE IF first = 254 THEN 4
                      ELSE 8
         IN IF first < 253 THEN [ok |-> TRUE, value |-> first, consumed |-> 1]
            ELSE IF Len(data) < 1 + width
                 THEN [ok |-> FALSE, value |-> 0, consumed |-> 0]
                 ELSE [ok |-> TRUE,
                       value |-> LittleEndian(SubSeq(data, 2, 1 + width)),
                       consumed |-> 1 + width]

\* a little-endian 32-bit value; not ok unless exactly four bytes are given
decode_uint32(data) ==
    IF Len(data) = 4 THEN [ok |-> TRUE, value |-> LittleEndian(data)]
                     ELSE [ok |-> FALSE, value |-> 0]

\* the display form of a hash: its bytes in reverse order
format_hash(data) == Reverse(data)

-----------------------------------------------------------------------------
(* script: the tokenizer's Script object.  An operation is                 *)
(* [k, v, len]: an opcode marker ("op", number), a small integer ("int",   *)
(* value) or pushed data ("data", identity, byte length).                  *)

OpCode(n) == [k |-> "op", v |-> n, len |-> 0]

OpInt(n) == [k |-> "int", v |-> n, len |-> 0]

OpData(id, n) == [k |-> "data", v |-> id, len |-> n]

\* the Script of no bytes that nothing recognises; the value of an unset cache
NoScript ==
    [hex |-> <<>>, valid |-> TRUE, pubkeyhash |-> FALSE, pubkey |-> FALSE,
     p2sh |-> FALSE, multisig |-> FALSE, ret |-> FALSE, p2wpkh |-> FALSE,
     p2wsh |-> FALSE, operations |-> <<>>]

\* Script.from_hex: the tokenizer's answer t for this record, over the bytes given
Script_from_hex(bytes, t) == [t EXCEPT !.hex = bytes]

-----------------------------------------------------------------------------
(* address: the Address constructors.                                      *)

Address(ctor, op, type, version) ==
    [ctor |-> ctor, v |-> op.v, len |-> op.len, type |-> type, version |-> version]

\* a public key is 33 (compressed) or 65 (uncompressed) bytes of data
from_public_key_ok(op) == op.k = "data" /\ op.len \in {33, 65}

from_public_key(op) == Address("public_key", op, "", -1)

\* a 160-bit hash is 20 bytes of data
from_ripemd160_ok(op) == op.k = "data" /\ op.len = 20

from_ripemd160(op, type) == Address("ripemd160", op, type, -1)

from_bech32(op, version) == Address("bech32", op, "", version)

-----------------------------------------------------------------------------
(* Optional values: None, or a value.                                      *)

None(dflt) == [isNone |-> TRUE, val |-> dflt]

Some(x) == [isNone |-> FALSE, val |-> x]

-----------------------------------------------------------------------------
(* Input.__init__                                                          *)

\* the record before its constructor has run
NewRec ==
    [status |-> "new", _script_length |-> 0, _script_start |-> 0, size |-> 0,
     hex |-> <<>>, _transaction_hash |-> None(<<>>), _script |-> None(NoScript),
     _sequence_number |-> None(0), _witnesses |-> <<>>,
     _addresses |-> None(<<>>)]

\* the size without the four bytes of the sequence number
SizeOf_NoSequence(script_start, script_length) == script_start + script_length

\* self.size = self._script_start + self._script_length + 4
SizeOf(script_start, script_length) == script_start + script_length + 4

\* the constructor: fails only when decode_varint fails; no other check is made
InputInit(raw_hex) ==
    LET vi == decode_varint(PySliceFrom(raw_hex, 36))
        script_start == 36 + vi.consumed
        size == SizeOf(script_start, vi.value)
    IN IF ~vi.ok THEN [NewRec EXCEPT !.status = "failed"]
       ELSE [NewRec EXCEPT !.status = "ok",
                           !._script_length = vi.value,
                           !._script_start = script_start,
                           !.size = size,
                           !.hex = PySlice(raw_hex, 0, size)]

-----------------------------------------------------------------------------
(* Input.type: the classification chain, first match wins.                 *)

\* the chain with the validity test after the templates
TypeOf_ValidityLast(s) ==
    IF s.pubkeyhash THEN "pubkeyhash"
    ELSE IF s.pubkey THEN "pubkey"
    ELSE IF s.p2sh THEN "p2sh"
    ELSE IF s.multisig THEN "multisig"
    ELSE IF s.ret THEN "OP_RETURN"
    ELSE IF s.p2wpkh THEN "p2wpkh"
    ELSE IF s.p2wsh THEN "p2wsh"
    ELSE IF ~s.valid THEN "invalid"
    ELSE "unknown"

TypeOf(s) ==
    IF ~s.valid THEN "invalid"
    ELSE IF s.pubkeyhash THEN "pubkeyhash"
    ELSE IF s.pubkey THEN "pubkey"
    ELSE IF s.p2sh THEN "p2sh"
    ELSE IF s.multisig THEN "multisig"
    ELSE IF s.ret THEN "OP_RETURN"
    ELSE IF s.p2wpkh THEN "p2wpkh"
    ELSE IF s.p2wsh THEN "p2wsh"
    ELSE "unknown"

-----------------------------------------------------------------------------
(* Input.addresses: the derivation run when the cache is unset.            *)

\* the order in which addresses compares self.type
AddressOrder == <<"pubkey", "pubkeyhash", "p2sh", "multisig", "p2wpkh", "p2wsh">>

\* how many times the derivation reads self.type: up to the first branch taken
TypeReads(tag) ==
    IF \E j \in 1..Len(AddressOrder) : AddressOrder[j] = tag
    THEN CHOOSE j \in 1..Len(AddressOrder) : AddressOrder[j] = tag
    ELSE Len(AddressOrder)

\* the operand a single-address template reads (0-based index)
OperandIndex(tag) ==
    IF tag = "pubkey" THEN 0
    ELSE IF tag = "pubkeyhash" THEN 2
    ELSE 1

\* the addresses appended for keys, in order, until one key is refused
RECURSIVE KeyAddresses(_)
KeyAddresses(keys) ==
    IF keys = <<>> THEN [err |-> "", list |-> <<>>]
    ELSE IF ~from_public_key_ok(Head(keys))
         THEN [err |-> "AddressDerivationError", list |-> <<>>]
         ELSE LET rest == KeyAddresses(Tail(keys))
              IN [err |-> rest.err, list |-> <<from_public_key(Head(keys))>> \o rest.list]

\* n = operations[-2]; for operation in operations[1:1+n]
MultisigKeys(ops) == PySlice(ops, 1, 1 + ops[Len(ops) - 1].v)

\* the branch of one template: [err, list] where list is what was appended
Derive(s) ==
    LET tag == TypeOf(s)
        ops == s.operations
        ix == OperandIndex(tag)
    IN IF tag \in {"pubkey", "pubkeyhash", "p2sh", "p2wpkh", "p2wsh"}
       THEN IF Len(ops) < ix + 1 THEN [err |-> "IndexError", list |-> <<>>]
            ELSE LET op == ops[ix + 1]
                 IN IF tag = "pubkey"
                    THEN IF from_public_key_ok(op)
                         THEN [err |-> "", list |-> <<from_public_key(op)>>]
                         ELSE [err |-> "AddressDerivationError", list |-> <<>>]
                    ELSE IF tag = "pubkeyhash"
                    THEN IF from_ripemd160_ok(op)
                         THEN [err |-> "", list |-> <<from_ripemd160(op, "normal")>>]
                         ELSE [err |-> "AddressDerivationError", list |-> <<>>]
                    ELSE IF tag = "p2sh"
                    THEN IF from_ripemd160_ok(op)
                         THEN [err |-> "", list |-> <<from_ripemd160(op, "p2sh")>>]
                         ELSE [err |-> "AddressDerivationError", list |-> <<>>]
                    ELSE [err |-> "", list |-> <<from_bech32(op, 0)>>]
       ELSE IF tag = "multisig"
       THEN IF Len(ops) < 2 THEN [err |-> "IndexError", list |-> <<>>]
            ELSE IF ops[Len(ops) - 1].k # "int" THEN [err |-> "TypeError", list |-> <<>>]
            ELSE KeyAddresses(MultisigKeys(ops))
       ELSE [err |-> "", list |-> <<>>]

-----------------------------------------------------------------------------
(* The accessors, as functions of the record r and the tokenizer's answer  *)
(* t: [r, err, ...] is the record afterwards and what the caller gets.     *)

\* transaction_hash: format_hash(self.hex[:32]), cached
TransactionHashGet(r) ==
    IF r._transaction_hash.isNone
    THEN [r EXCEPT !._transaction_hash = Some(format_hash(PySlice(r.hex, 0, 32)))]
    ELSE r

\* sequence_number: decode_uint32(self.hex[self.size-4:self.size]), cached
SequenceNumberGet(r) ==
    LET d == decode_uint32(PySlice(r.hex, r.size - 4, r.size))
    IN IF ~r._sequence_number.isNone THEN [r |-> r, err |-> ""]
       ELSE IF d.ok THEN [r |-> [r EXCEPT !._sequence_number = Some(d.value)], err |-> ""]
       ELSE [r |-> r, err |-> "MalformedRecord"]

\* script without the test of the cache: every access parses again
ScriptGet_NoCache(r, t) ==
    [r |-> [r EXCEPT !._script =
                Some(Script_from_hex(
                    PySlice(r.hex, r._script_start, r._script_start + r._script_length),
                    t))],
     parsed |-> 1]

\* script: Script.from_hex(self.hex[self._script_start:end]), cached;
\* parsed is 1 when Script.from_hex was called
ScriptGet(r, t) ==
    IF r._script.isNone
    THEN [r |-> [r EXCEPT !._script =
                     Some(Script_from_hex(
                         PySlice(r.hex, r._script_start, r._script_start + r._script_length),
                         t))],
          parsed |-> 1]
    ELSE [r |-> r, parsed |-> 0]

\* type: reads self.script, then runs the chain; nothing is cached
TypeGet(r, t) ==
    LET g == ScriptGet(r, t)
    IN [r |-> g.r, parsed |-> g.parsed, tag |-> TypeOf(g.r._script.val), classified |-> 1]

\* addresses: when the cache is unset it is set to [] first, then filled by the
\* branch of the template; an error leaves what was appended so far.  The
\* property has no return statement: the caller gets None.
AddressesGet(r, t) ==
    IF r._addresses.isNone
    THEN LET g == ScriptGet(r, t)
             d == Derive(g.r._script.val)
         IN [r |-> [g.r EXCEPT !._addresses = Some(d.list)],
             err |-> d.err, parsed |-> g.parsed,
             classified |-> TypeReads(TypeOf(g.r._script.val)), derived |-> 1]
    ELSE [r |-> r, err |-> "", parsed |-> 0, classified |-> 0, derived |-> 0]

\* add_witness that puts the item first
AddWitnessTo_Prepend(r, witness) == [r EXCEPT !._witnesses = <<witness>> \o @]

\* add_witness: self._witnesses.append(witness)
AddWitnessTo(r, witness) == [r EXCEPT !._witnesses = Append(@, witness)]

-----------------------------------------------------------------------------
(* The buffers handed to the constructor.                                  *)

\* 32 bytes of previous-output hash and 4 bytes of output index
Header == [i \in 1..36 |-> i]

ScriptBytes(L) == [j \in 1..L |-> 100 + j]

SequenceBytes == <<2, 1, 0, 0>>

\* the compact-size prefix of value L that takes v bytes
EncodeVarint(v, L) ==
    IF v = 1 THEN <<L>>
    ELSE <<(IF v = 3 THEN 253 ELSE IF v = 5 THEN 254 ELSE 255), L % 256, L \div 256>>
         \o [j \in 1..(v - 3) |-> 0]

VarintWidths == {1, 3, 5, 9}

Trailings == {<<>>, <<7>>, <<9, 253>>}

\* a whole record followed by trailing bytes
Full(v, L, t) == Header \o EncodeVarint(v, L) \o ScriptBytes(L) \o SequenceBytes \o t

\* the lengths a buffer is cut to: inside the header, at and inside the prefix,
\* inside the script or the sequence number, and not at all
CutsOf(v, L, t) ==
    {n \in {35, 36, 35 + v, 36 + v, 36 + v + L + 3, 36 + v + L + 4 + Len(t)} :
        n <= 36 + v + L + 4 + Len(t)}

RawsOf(v, L) ==
    {SubSeq(Full(v, L, t), 1, n) : <<t, n>> \in
        {tn \in Trailings \X (35..(36 + v + L + 6)) : tn[2] \in CutsOf(v, L, tn[1])}}

-----------------------------------------------------------------------------
(* The tokenizer's answers.                                                *)

Flags(valid, pubkeyhash, pubkey, p2sh, multisig, ret, p2wpkh, p2wsh, ops) ==
    [hex |-> <<>>, valid |-> valid, pubkeyhash |-> pubkeyhash, pubkey |-> pubkey,
     p2sh |-> p2sh, multisig |-> multisig, ret |-> ret, p2wpkh |-> p2wpkh,
     p2wsh |-> p2wsh, operations |-> ops]

\* every combination of the validity flag and the seven predicates
AnyFlags ==
    {Flags(b[1], b[2], b[3], b[4], b[5], b[6], b[7], b[8], <<>>) :
        b \in [1..8 -> BOOLEAN]}

Only(tag, ops) ==
    Flags(tag # "invalid", tag = "pubkeyhash", tag = "pubkey", tag = "p2sh",
          tag = "multisig", tag = "OP_RETURN", tag = "p2wpkh", tag = "p2wsh", ops)

\* scripts of the standard templates
WellFormed ==
    { Only("pubkey", <<OpData(1, 33), OpCode(172)>>),
      Only("pubkeyhash",
           <<OpCode(118), OpCode(169), OpData(2, 20), OpCode(136), OpCode(172)>>),
      Only("p2sh", <<OpCode(169), OpData(3, 20), OpCode(135)>>),
      Only("multisig",
           <<OpInt(2), OpData(4, 33), OpData(5, 33), OpData(6, 65), OpInt(3), OpCode(174)>>),
      Only("multisig", <<OpInt(1), OpData(4, 33), OpData(5, 65), OpInt(2), OpCode(174)>>),
      Only("OP_RETURN", <<OpCode(106), OpData(7, 5)>>),
      Only("p2wpkh", <<OpInt(0), OpData(8, 20)>>),
      Only("p2wsh", <<OpInt(0), OpData(9, 32)>>),
      Only("unknown", <<OpCode(118)>>),
      Only("invalid", <<OpCode(169), OpData(3, 20), OpCode(135)>>) }

\* scripts a predicate accepts although an operand is missing or of the wrong length
IllFormed ==
    { Only("pubkey", <<>>),
      Only("pubkey", <<OpData(1, 32), OpCode(172)>>),
      Only("pubkeyhash", <<OpCode(118), OpCode(169)>>),
      Only("p2sh", <<OpCode(169), OpData(3, 19), OpCode(135)>>),
      Only("multisig", <<OpInt(1), OpData(4, 33), OpData(5, 10), OpInt(2), OpCode(174)>>),
      Only("multisig", <<OpCode(174)>>),
      Only("p2wpkh", <<OpInt(0)>>) }

Witnesses == {<<170>>, <<187, 204>>}

-----------------------------------------------------------------------------
(* What the caller saw last.                                               *)

Obs(op, id, err) ==
    [op |-> op, id |-> id, err |-> err, none |-> FALSE, tag |-> "", bytes |-> <<>>,
     num |-> 0, scr |-> NoScript, addrs |-> <<>>, wits |-> <<>>]

NoCalls == [from_hex |-> 0, classify |-> 0, derive |-> 0]

Count(c, parsed, classified, derived) ==
    [from_hex |-> c.from_hex + parsed, classify |-> c.classify + classified,
     derive |-> c.derive + derived]

-----------------------------------------------------------------------------
(* The single caller: one action per call.                                 *)

Idle == [pc |-> "idle", op |-> "", id |-> 0, saw |-> "", ran |-> {}]

InitCommon ==
    /\ rec = [i \in Recs |-> NewRec]
    /\ obs = Obs("", 0, "")
    /\ calls = [i \in Recs |-> NoCalls]
    /\ nops = 0
    /\ thr = [t \in Threads |-> Idle]

\* the decoder's run: buffers of every width and cut; one plain script
InitDecode ==
    /\ \E v \in VarintWidths, L \in 0..MaxScriptLen :
          /\ raw \in [Recs -> RawsOf(v, L)]
          /\ raw[2] = Full(v, L, <<9, 253>>)
    /\ tok = [i \in Recs |-> Only("unknown", <<OpCode(118)>>)]
    /\ InitCommon

\* the classifier's run: every combination of the tokenizer's flags for record 1,
\* beside a record whose buffer ends inside the header
InitClassify ==
    /\ raw = [i \in Recs |-> IF i = 1 THEN Full(1, 1, <<>>) ELSE SubSeq(Header, 1, 35)]
    /\ tok \in [Recs -> AnyFlags]
    /\ tok[2] = Only("unknown", <<>>)
    /\ InitCommon

\* the resolver's run: scripts of the templates, well and ill formed
Init ==
    /\ raw = [i \in Recs |-> Full(1, 1, <<>>)]
    /\ tok \in [Recs -> WellFormed \cup IllFormed]
    /\ tok[2] \in {Only("pubkey", <<OpData(1, 33), OpCode(172)>>), Only("unknown", <<OpCode(118)>>)}
    /\ InitCommon

Ready(i) == rec[i].status = "ok" /\ nops < MaxOps /\ \A t \in Threads : thr[t].pc = "idle"

\* Input(raw) / Input.from_hex(raw)
Construct(i) ==
    /\ rec[i].status = "new"
    /\ \A t \in Threads : thr[t].pc = "idle"
    /\ rec' = [rec EXCEPT ![i] = InputInit(raw[i])]
    /\ obs' = Obs("init", i, IF rec'[i].status = "failed" THEN "MalformedRecord" ELSE "")
    /\ UNCHANGED <<raw, tok, calls, nops, thr>>

TransactionHash(i) ==
    /\ Ready(i)
    /\ rec' = [rec EXCEPT ![i] = TransactionHashGet(rec[i])]
    /\ obs' = [Obs("transaction_hash", i, "") EXCEPT !.bytes = rec'[i]._transaction_hash.val]
    /\ nops' = nops + 1
    /\ UNCHANGED <<raw, tok, calls, thr>>

SequenceNumber(i) ==
    LET g == SequenceNumberGet(rec[i])
    IN /\ Ready(i)
       /\ rec' = [rec EXCEPT ![i] = g.r]
       /\ obs' = [Obs("sequence_number", i, g.err) EXCEPT !.num = g.r._sequence_number.val]
       /\ nops' = nops + 1
       /\ UNCHANGED <<raw, tok, calls, thr>>

ScriptAccess(i) ==
    LET g == ScriptGet(rec[i], tok[i])
    IN /\ Ready(i)
       /\ rec' = [rec EXCEPT ![i] = g.r]
       /\ obs' = [Obs("script", i, "") EXCEPT !.scr = g.r._script.val]
       /\ calls' = [calls EXCEPT ![i] = Count(@, g.parsed, 0, 0)]
       /\ nops' = nops + 1
       /\ UNCHANGED <<raw, tok, thr>>

TypeAccess(i) ==
    LET g == TypeGet(rec[i], tok[i])
    IN /\ Ready(i)
       /\ rec' = [rec EXCEPT ![i] = g.r]
       /\ obs' = [Obs("type", i, "") EXCEPT !.tag = g.tag]
       /\ calls' = [calls EXCEPT ![i] = Count(@, g.parsed, g.classified, 0)]
       /\ nops' = nops + 1
       /\ UNCHANGED <<raw, tok, thr>>

AddressesAccess(i) ==
    LET g == AddressesGet(rec[i], tok[i])
    IN /\ Ready(i)
       /\ rec' = [rec EXCEPT ![i] = g.r]
       /\ obs' = [Obs("addresses", i, g.err) EXCEPT !.none = (g.err = "")]
       /\ calls' = [calls EXCEPT ![i] = Count(@, g.parsed, g.classified, g.derived)]
       /\ nops' = nops + 1
       /\ UNCHANGED <<raw, tok, thr>>

WitnessesAccess(i) ==
    /\ Ready(i)
    /\ obs' = [Obs("witnesses", i, "") EXCEPT !.wits = rec[i]._witnesses]
    /\ nops' = nops + 1
    /\ UNCHANGED <<raw, tok, rec, calls, thr>>

AddWitness(i, witness) ==
    /\ Ready(i)
    /\ rec' = [rec EXCEPT ![i] = AddWitnessTo(rec[i], witness)]
    /\ obs' = [Obs("add_witness", i, "") EXCEPT !.none = TRUE]
    /\ nops' = nops + 1
    /\ UNCHANGED <<raw, tok, calls, thr>>

Next ==
    \E i \in Recs :
        \/ Construct(i)
        \/ TransactionHash(i)
        \/ SequenceNumber(i)
        \/ ScriptAccess(i)
        \/ TypeAccess(i)
        \/ AddressesAccess(i)
        \/ WitnessesAccess(i)
        \/ \E witness \in Witnesses : AddWitness(i, witness)

Spec == Init /\ [][Next]_vars

SpecDecode == InitDecode /\ [][Next]_vars

SpecClassify == InitClassify /\ [][Next]_vars

-----------------------------------------------------------------------------
(* Two reader threads: the accessors step by step.  A thread makes one     *)
(* call on a record; between the test of a cache and its assignment the    *)
(* other thread may run, on the same record or on the other one.  id is    *)
(* the record the thread reads, saw what it found in the addresses cache,  *)
(* ran the one-time computations it executed.                              *)

InitShared ==
    /\ raw = [i \in Recs |-> Full(1, 1, <<>>)]
    /\ tok \in [Recs -> WellFormed \cup IllFormed]
    /\ tok[2] = Only("pubkey", <<OpData(1, 33), OpCode(172)>>)
    /\ rec = [i \in Recs |-> InputInit(raw[i])]
    /\ obs = Obs("", 0, "")
    /\ calls = [i \in Recs |-> NoCalls]
    /\ nops = 0
    /\ thr = [t \in Threads |-> Idle]

\* another thread has set the addresses cache and not finished filling it
Filling(t) ==
    \E u \in Threads \ {t} :
        /\ thr[u].id = thr[t].id
        /\ thr[u].op = "addresses"
        /\ thr[u].pc \in {"s_check", "s_parse", "a_fill"}

Begin(t, op, i) ==
    /\ thr[t].pc = "idle"
    /\ thr' = [thr EXCEPT ![t] = [@ EXCEPT !.op = op, !.id = i,
                                          !.pc = IF op = "addresses" THEN "a_check"
                                                                     ELSE "s_check"]]
    /\ UNCHANGED <<raw, tok, rec, obs, calls, nops>>

\* where a thread goes once self.script has returned
AfterScript(op) ==
    IF op = "script" THEN "done" ELSE IF op = "type" THEN "t_chain" ELSE "a_fill"

\* if self._script is None
ScriptCheck(t) ==
    /\ thr[t].pc = "s_check"
    /\ thr' = [thr EXCEPT ![t].pc = IF rec[thr[t].id]._script.isNone THEN "s_parse"
                                    ELSE AfterScript(thr[t].op)]
    /\ UNCHANGED <<raw, tok, rec, obs, calls, nops>>

\* self._script = Script.from_hex(...)
ScriptParse(t) ==
    /\ thr[t].pc = "s_parse"
    /\ rec' = [rec EXCEPT ![thr[t].id]._script =
                  Some(Script_from_hex(
                      PySlice(rec[thr[t].id].hex, rec[thr[t].id]._script_start,
                              rec[thr[t].id]._script_start + rec[thr[t].id]._script_length),
                      tok[thr[t].id]))]
    /\ calls' = [calls EXCEPT ![thr[t].id] = Count(@, 1, 0, 0)]
    /\ thr' = [thr EXCEPT ![t] = [@ EXCEPT !.pc = AfterScript(thr[t].op),
                                          !.ran = @ \cup {"parse"}]]
    /\ UNCHANGED <<raw, tok, obs, nops>>

\* the chain of Input.type
TypeChain(t) ==
    /\ thr[t].pc = "t_chain"
    /\ obs' = [Obs("type", thr[t].id, "") EXCEPT !.tag = TypeOf(rec[thr[t].id]._script.val)]
    /\ calls' = [calls EXCEPT ![thr[t].id] = Count(@, 0, 1, 0)]
    /\ thr' = [thr EXCEPT ![t] = [@ EXCEPT !.pc = "done", !.ran = @ \cup {"classify"}]]
    /\ UNCHANGED <<raw, tok, rec, nops>>

\* if self._addresses is None
AddressesCheck(t) ==
    /\ thr[t].pc = "a_check"
    /\ thr' = [thr EXCEPT ![t] =
                  IF rec[thr[t].id]._addresses.isNone
                  THEN [@ EXCEPT !.pc = "a_set", !.saw = "unset"]
                  ELSE [@ EXCEPT !.pc = "done",
                                 !.saw = IF Filling(t) THEN "incomplete" ELSE "complete"]]
    /\ UNCHANGED <<raw, tok, rec, obs, calls, nops>>

\* self._addresses = []
AddressesSet(t) ==
    /\ thr[t].pc = "a_set"
    /\ rec' = [rec EXCEPT ![thr[t].id]._addresses = Some(<<>>)]
    /\ thr' = [thr EXCEPT ![t].pc = "s_check"]
    /\ UNCHANGED <<raw, tok, obs, calls, nops>>

\* the branch of the template: appends to the list the cache holds now
AddressesFill(t) ==
    LET d == Derive(rec[thr[t].id]._script.val)
    IN /\ thr[t].pc = "a_fill"
       /\ rec' = [rec EXCEPT ![thr[t].id]._addresses = Some(@.val \o d.list)]
       /\ obs' = [Obs("addresses", thr[t].id, d.err) EXCEPT !.none = (d.err = "")]
       /\ calls' = [calls EXCEPT ![thr[t].id] =
                       Count(@, 0, TypeReads(TypeOf(rec[thr[t].id]._script.val)), 1)]
       /\ thr' = [thr EXCEPT ![t] = [@ EXCEPT !.pc = "done",
                                             !.ran = @ \cup {"classify", "derive"}]]
       /\ UNCHANGED <<raw, tok, nops>>

NextShared ==
    \E t \in Threads :
        \/ \E op \in {"script", "type", "addresses"}, i \in Recs : Begin(t, op, i)
        \/ ScriptCheck(t)
        \/ ScriptParse(t)
        \/ TypeChain(t)
        \/ AddressesCheck(t)
        \/ AddressesSet(t)
        \/ AddressesFill(t)

SpecShared == InitShared /\ [][NextShared]_vars

-----------------------------------------------------------------------------
(* Properties of the decoder.                                              *)

\* raw holds, from offset 36, the prefix of value L in v bytes, L script bytes
\* and the 4 bytes of the sequence number
HoldsRecord(r, v, L) ==
    /\ Len(r) >= 36 + v + L + 4
    /\ SubSeq(r, 37, 36 + v) = EncodeVarint(v, L)

\* C1: every Input that was constructed successfully has size <= len(raw) and
\* len(hex) = size: a buffer shorter than the declared size is refused.
C1_ShortBufferRefused ==
    \A i \in Recs :
        rec[i].status = "ok" =>
            /\ rec[i].size <= Len(raw[i])
            /\ Len(rec[i].hex) = rec[i].size

\* C2: for a buffer that holds a whole record (prefix of value L in v bytes) and
\* any trailing bytes, the constructor succeeds with _script_start = 36 + v,
\* size = 36 + v + L + 4 and hex = raw[:size] of exactly size bytes, and the
\* transaction hash, the script bytes and the sequence number are those of
\* raw[:size], equal for two buffers that differ only after offset size.
C2_ExactSize ==
    \A i \in Recs, v \in VarintWidths, L \in 0..MaxScriptLen :
        (HoldsRecord(raw[i], v, L) /\ rec[i].status # "new") =>
            LET r == rec[i]
                size == 36 + v + L + 4
            IN /\ r.status = "ok"
               /\ r._script_start = 36 + v
               /\ r.size = size
               /\ r.hex = SubSeq(raw[i], 1, size)
               /\ Len(r.hex) = size
               /\ ~r._transaction_hash.isNone =>
                      r._transaction_hash.val = Reverse(SubSeq(raw[i], 1, 32))
               /\ ~r._script.isNone =>
                      r._script.val.hex = SubSeq(raw[i], 36 + v + 1, 36 + v + L)
               /\ ~r._sequence_number.isNone =>
                      r._sequence_number.val =
                          raw[i][size - 3] + 256 * raw[i][size - 2]
                          + 65536 * raw[i][size - 1] + 16777216 * raw[i][size]
               /\ (obs.id = i /\ obs.op = "sequence_number") => obs.err = ""
               /\ \A j \in Recs :
                      (rec[j].status = "ok" /\ Len(raw[j]) >= size
                       /\ SubSeq(raw[j], 1, size) = SubSeq(raw[i], 1, size)) =>
                          /\ rec[j].size = r.size
                          /\ rec[j].hex = r.hex
                          /\ (~rec[j]._transaction_hash.isNone /\ ~r._transaction_hash.isNone)
                                 => rec[j]._transaction_hash = r._transaction_hash
                          /\ (~rec[j]._sequence_number.isNone /\ ~r._sequence_number.isNone)
                                 => rec[j]._sequence_number = r._sequence_number
                          /\ (~rec[j]._script.isNone /\ ~r._script.isNone)
                                 => rec[j]._script.val.hex = r._script.val.hex

\* a record of a 9-byte prefix and one script byte, read from two buffers with
\* different trailing bytes, with the fields computed
C2_Witness ==
    /\ raw[1] # raw[2]
    /\ HoldsRecord(raw[1], 9, 1) /\ HoldsRecord(raw[2], 9, 1)
    /\ rec[1].status = "ok" /\ rec[2].status = "ok"
    /\ ~rec[1]._sequence_number.isNone /\ ~rec[2]._sequence_number.isNone
    /\ ~rec[1]._script.isNone

-----------------------------------------------------------------------------
(* Properties of the classifier.                                           *)

TemplateOrder ==
    <<"invalid", "pubkeyhash", "pubkey", "p2sh", "multisig", "OP_RETURN", "p2wpkh", "p2wsh">>

Matches(t) ==
    <<~t.valid, t.pubkeyhash, t.pubkey, t.p2sh, t.multisig, t.ret, t.p2wpkh, t.p2wsh>>

\* C3: for every combination of the validity flag and the seven predicates, type
\* returns the first tag that matches in the order invalid, pubkeyhash, pubkey,
\* p2sh, multisig, OP_RETURN, p2wpkh, p2wsh, and unknown when none matches.
C3_FirstMatchWins ==
    \A i \in Recs :
        (obs.op = "type" /\ obs.id = i) =>
            LET m == Matches(tok[i])
            IN /\ \A j \in 1..8 :
                      (m[j] /\ \A k \in 1..(j - 1) : ~m[k]) => obs.tag = TemplateOrder[j]
               /\ (\A j \in 1..8 : ~m[j]) => obs.tag = "unknown"
               /\ ~tok[i].valid => obs.tag = "invalid"
               /\ obs.err = ""

\* type was read on a valid script that three predicates accept
C3_Witness ==
    /\ obs.op = "type" /\ obs.id = 1
    /\ tok[1].valid /\ ~tok[1].pubkeyhash
    /\ tok[1].pubkey /\ tok[1].p2sh /\ tok[1].multisig
    /\ obs.tag = "pubkey"

-----------------------------------------------------------------------------
(* Properties of the resolver.                                             *)

\* the script the record's accessors work on
ScriptOf(i) == Script_from_hex(<<>>, tok[i])

\* C4: for a script of the pubkeyhash, p2sh, pubkey, p2wpkh or p2wsh template,
\* addresses returns a list of exactly one address, built from operand 2
\* (pubkeyhash), 1 (p2sh), 0 (pubkey) or 1 (p2wpkh, p2wsh, witness version 0).
C4_OneAddress ==
    \A i \in Recs :
        (obs.op = "addresses" /\ obs.id = i /\ tok[i] \in WellFormed) =>
            LET tag == TypeOf(ScriptOf(i))
                ops == tok[i].operations
            IN /\ tag = "pubkeyhash" =>
                      (~obs.none /\ obs.addrs = <<from_ripemd160(ops[3], "normal")>>)
               /\ tag = "p2sh" =>
                      (~obs.none /\ obs.addrs = <<from_ripemd160(ops[2], "p2sh")>>)
               /\ tag = "pubkey" =>
                      (~obs.none /\ obs.addrs = <<from_public_key(ops[1])>>)
               /\ tag \in {"p2wpkh", "p2wsh"} =>
                      (~obs.none /\ obs.addrs = <<from_bech32(ops[2], 0)>>)

\* C5: for a multisig script [m, pub_1, ..., pub_n, n, OP_CHECKMULTISIG],
\* addresses returns exactly n addresses, the i-th built from pub_i as a raw
\* public key, in script order (n is the total of keys, not the threshold m).
C5_MultisigAllKeys ==
    \A i \in Recs :
        (obs.op = "addresses" /\ obs.id = i /\ tok[i] \in WellFormed
         /\ TypeOf(ScriptOf(i)) = "multisig") =>
            LET ops == tok[i].operations
                n == Len(ops) - 3
            IN /\ ~obs.none
               /\ Len(obs.addrs) = n
               /\ \A j \in 1..n : obs.addrs[j] = from_public_key(ops[1 + j])

\* C6: for a script classified invalid, unknown or OP_RETURN, every access to
\* addresses returns an empty sequence (not an absent value) and raises nothing.
C6_EmptyNotAbsent ==
    \A i \in Recs :
        (obs.op = "addresses" /\ obs.id = i
         /\ TypeOf(ScriptOf(i)) \in {"invalid", "unknown", "OP_RETURN"}) =>
            /\ obs.err = ""
            /\ ~obs.none
            /\ obs.addrs = <<>>

\* C7: when the derivation of a record fails, the error is never swallowed:
\* every access to addresses of that record raises, the first and the later ones.
C7_ErrorNeverSwallowed ==
    \A i \in Recs :
        (obs.op = "addresses" /\ obs.id = i /\ tok[i] \in IllFormed) => obs.err # ""

\* what the cache of addresses holds once the derivation has run: the list of
\* the template for a well-formed script
CacheHoldsAddresses ==
    \A i \in Recs :
        (~rec[i]._addresses.isNone /\ tok[i] \in WellFormed) =>
            LET tag == TypeOf(ScriptOf(i))
                ops == tok[i].operations
                held == rec[i]._addresses.val
            IN /\ tag = "pubkeyhash" => held = <<from_ripemd160(ops[3], "normal")>>
               /\ tag = "p2sh" => held = <<from_ripemd160(ops[2], "p2sh")>>
               /\ tag = "pubkey" => held = <<from_public_key(ops[1])>>
               /\ tag \in {"p2wpkh", "p2wsh"} => held = <<from_bech32(ops[2], 0)>>
               /\ tag = "multisig" =>
                      held = [j \in 1..(Len(ops) - 3) |-> from_public_key(ops[1 + j])]
               /\ tag \in {"invalid", "unknown", "OP_RETURN"} => held = <<>>

-----------------------------------------------------------------------------
(* Properties of the memoisation.                                          *)

C9_ComputeOrWait ==
    /\ thr[1].id = thr[2].id =>
           \A c \in {"parse", "classify", "derive"} :
               ~(c \in thr[1].ran /\ c \in thr[2].ran)
    /\ \A t \in Threads : thr[t].saw # "incomplete"

-----------------------------------------------------------------------------
(* Properties of the witness list.                                         *)

\* C10: witnesses is empty after construction; every add_witness appends exactly
\* its item at the end and changes nothing else of that record nor anything of
\* another record; no other call changes a witness list; witnesses returns
\* the list as it stands.
C10_AppendOnly ==
    /\ \A i \in Recs : rec[i]._witnesses = <<>>
    /\ [][\A i \in Recs :
            /\ (rec[i].status = "new" /\ rec'[i].status = "ok") => rec'[i]._witnesses = <<>>
            /\ (obs'.op = "add_witness" /\ obs'.id = i /\ nops' = nops + 1) =>
                   /\ \E w \in Witnesses : rec'[i]._witnesses = Append(rec[i]._witnesses, w)
                   /\ rec'[i] = [rec[i] EXCEPT !._witnesses = rec'[i]._witnesses]
                   /\ \A j \in Recs \ {i} : rec'[j] = rec[j]
                   /\ raw' = raw /\ tok' = tok /\ calls' = calls
            /\ rec'[i]._witnesses # rec[i]._witnesses =>
                   (obs'.op = "add_witness" /\ obs'.id = i /\ nops' = nops + 1)
            /\ (obs'.op = "witnesses" /\ obs'.id = i /\ nops' = nops + 1) =>
                   (obs'.wits = rec[i]._witnesses /\ rec' = rec)
      ]_vars

\* two items added to record 1, with its script read in between, held in call
\* order, and record 2 left without witnesses
C10_Witness ==
    /\ obs.op = "add_witness" /\ obs.id = 1
    /\ rec[1]._witnesses = << <<187, 204>>, <<170>> >>
    /\ ~rec[1]._script.isNone
    /\ rec[2].status = "ok" /\ rec[2]._witnesses = <<>>

====
